---- MODULE Spec2Model ----
(***************************************************************************)
(* Options strategy library (api/strategies.py): the Black-Scholes pricing *)
(* engine and the OptionsStrategy aggregate.                               *)
(*                                                                         *)
(* Numbers.  Prices, strikes and premiums are whole ticks and arithmetic   *)
(* on them is exact.  The closed-form branch of the pricing engine (log,   *)
(* exp, normal cdf/pdf) is kept symbolic: a value is a record              *)
(*     [nan, k, t]                                                         *)
(* where k is the exactly known part, t maps each closed-form term (an     *)
(* "atom": function name and its arguments) to its integer coefficient,    *)
(* and nan says the float is NaN (NaN absorbs every later operation).      *)
(* Rates and volatility are in percent, time is in days (T = days/365).    *)
(***************************************************************************)
EXTENDS Integers, Sequences, FiniteSets, TLC

VARIABLES name, option_legs, stock_legs, market_params, result, bs_args, bs_ret,
          handlers, heap, instances, call

vars == <<name, option_legs, stock_legs, market_params, result, bs_args, bs_ret,
          handlers, heap, instances, call>>

strategy_vars == <<name, option_legs, stock_legs, market_params, result>>

engine_vars == <<bs_args, bs_ret>>

\* the requests in flight at the analysis endpoint
api_vars == <<handlers>>

\* the MarketParams objects and the strategy instances referring to them
alias_vars == <<heap, instances, call>>

(***************************************************************************)
(* Bounds of the model and constants of the program.                       *)
(***************************************************************************)
MaxLegs == 2

ContractMultiplier == 100

GridSize == 500

DefaultQuantity == 100

(***************************************************************************)
(* Values: exact part, symbolic closed-form terms, NaN.                    *)
(***************************************************************************)
EmptyTerms == [x \in {} |-> 0]

Exact(k) == [nan |-> FALSE, k |-> k, t |-> EmptyTerms]

Sym(atom) == [nan |-> FALSE, k |-> 0, t |-> [x \in {atom} |-> 1]]

NaN == [nan |-> TRUE, k |-> 0, t |-> EmptyTerms]

Coef(t, x) == IF x \in DOMAIN t THEN t[x] ELSE 0

TAdd(a, b) ==
    LET D == DOMAIN a \cup DOMAIN b
        N == {x \in D : Coef(a, x) + Coef(b, x) # 0}
    IN  [x \in N |-> Coef(a, x) + Coef(b, x)]

VAdd(a, b) ==
    IF a.nan \/ b.nan THEN NaN
    ELSE [nan |-> FALSE, k |-> a.k + b.k, t |-> TAdd(a.t, b.t)]

VScale(c, a) ==
    IF a.nan THEN NaN
    ELSE IF c = 0 THEN Exact(0)
    ELSE [nan |-> FALSE, k |-> c * a.k, t |-> [x \in DOMAIN a.t |-> c * a.t[x]]]

VSub(a, b) == VAdd(a, VScale(-1, b))

Max(a, b) == IF a >= b THEN a ELSE b

Sgn(x) == IF x > 0 THEN 1 ELSE IF x < 0 THEN -1 ELSE 0

Abs(x) == IF x < 0 THEN -x ELSE x

RECURSIVE GCD(_, _)
GCD(a, b) == IF b = 0 THEN Abs(a) ELSE GCD(b, a % b)

(***************************************************************************)
(* dataclass MarketParams and its defaults.                                *)
(***************************************************************************)
MarketParams(r, sigma, q, days) ==
    [risk_free_rate |-> r, volatility |-> sigma, dividend_yield |-> q,
     days_to_expiration |-> days]

DefaultMarketParams == MarketParams(5, 25, 0, 30)

OptionLeg(option_type, position, strike, premium) ==
    [option_type |-> option_type, position |-> position, strike |-> strike,
     premium |-> premium]

StockLeg(position, price, quantity) ==
    [position |-> position, price |-> price, quantity |-> quantity]

(***************************************************************************)
(* BlackScholes.  The guard of each function is the code's; the closed     *)
(* form behind it is the atom <<function, kind, S, K, days, r, sigma, q>>. *)
(*                                                                         *)
(* d1 = (log(S/K) + (r - q + sigma^2/2) T) / (sigma sqrt(T)) is a float    *)
(* division: with T > 0 and sigma = 0 the divisor is 0.0, so d1 is +-inf,  *)
(* or NaN when the numerator is 0 too.  The numerator log(S/K) + (r - q) T *)
(* is taken to be 0 exactly when S = K and r = q.  np.log of a negative    *)
(* quotient S/K (a negative strike or price) is NaN, whatever sigma.       *)
(* (S = 0 and K = 0 are not among the inputs of the model.)                *)
(***************************************************************************)
d1_class(S, K, days, r, sigma, q) ==
    IF (S > 0 /\ K < 0) \/ (S < 0 /\ K > 0) THEN "nan"
    ELSE IF sigma # 0 THEN "finite"
    ELSE IF S = K /\ r = q THEN "nan"
    ELSE "inf"

\* the else-branch of "if option_type == 'call'" takes every other tag
kind_branch(option_type) == IF option_type = "call" THEN "call" ELSE "put"

\* call_price guarding T <= 0 alone, as the Greeks do
call_price_T_only(S, K, days, r, sigma, q) ==
    IF days <= 0 THEN Exact(Max(S - K, 0))
    ELSE Sym(<<"call_price", "call", S, K, days, r, sigma, q>>)

\* max(call, 0) keeps a NaN call: 0 > nan is false
call_price(S, K, days, r, sigma, q) ==
    IF days <= 0 \/ sigma <= 0 THEN Exact(Max(S - K, 0))
    ELSE IF d1_class(S, K, days, r, sigma, q) = "nan" THEN NaN
    ELSE Sym(<<"call_price", "call", S, K, days, r, sigma, q>>)

put_price(S, K, days, r, sigma, q) ==
    IF days <= 0 \/ sigma <= 0 THEN Exact(Max(K - S, 0))
    ELSE IF d1_class(S, K, days, r, sigma, q) = "nan" THEN NaN
    ELSE Sym(<<"put_price", "put", S, K, days, r, sigma, q>>)

\* delta with the symmetric put limit, -1 for a put in the money
delta_put_limit(S, K, days, r, sigma, option_type, q) ==
    IF days <= 0
    THEN (IF S > K /\ option_type = "call" THEN Exact(1)
          ELSE IF S < K /\ option_type # "call" THEN Exact(-1)
          ELSE Exact(0))
    ELSE IF d1_class(S, K, days, r, sigma, q) = "nan" THEN NaN
    ELSE Sym(<<"delta", kind_branch(option_type), S, K, days, r, sigma, q>>)

delta(S, K, days, r, sigma, option_type, q) ==
    IF days <= 0
    THEN (IF S > K /\ option_type = "call" THEN Exact(1) ELSE Exact(0))
    ELSE IF d1_class(S, K, days, r, sigma, q) = "nan" THEN NaN
    ELSE Sym(<<"delta", kind_branch(option_type), S, K, days, r, sigma, q>>)

gamma(S, K, days, r, sigma, q) ==
    IF days <= 0 THEN Exact(0)
    \* pdf(d1) / (S * sigma * sqrt(T)): 0.0 / 0.0 when sigma = 0
    ELSE IF d1_class(S, K, days, r, sigma, q) # "finite" THEN NaN
    ELSE Sym(<<"gamma", "any", S, K, days, r, sigma, q>>)

theta(S, K, days, r, sigma, option_type, q) ==
    IF days <= 0 THEN Exact(0)
    ELSE IF d1_class(S, K, days, r, sigma, q) = "nan" THEN NaN
    ELSE Sym(<<"theta", kind_branch(option_type), S, K, days, r, sigma, q>>)

vega(S, K, days, r, sigma, q) ==
    IF days <= 0 THEN Exact(0)
    ELSE IF d1_class(S, K, days, r, sigma, q) = "nan" THEN NaN
    \* S * exp(-qT) * pdf(+-inf) * sqrt(T) / 100 = 0.0
    ELSE IF d1_class(S, K, days, r, sigma, q) = "inf" THEN Exact(0)
    ELSE Sym(<<"vega", "any", S, K, days, r, sigma, q>>)

rho(S, K, days, r, sigma, option_type, q) ==
    IF days <= 0 THEN Exact(0)
    ELSE IF d1_class(S, K, days, r, sigma, q) = "nan" THEN NaN
    ELSE Sym(<<"rho", kind_branch(option_type), S, K, days, r, sigma, q>>)

(***************************************************************************)
(* OptionsStrategy: the queries, as functions of the legs and parameters.  *)
(***************************************************************************)
\* one pass of "for leg in self.stock_legs" at terminal price S
stock_leg_payoff(leg, S) ==
    IF leg.position = "long" THEN (S - leg.price) * leg.quantity
    ELSE (leg.price - S) * leg.quantity

intrinsic(leg, S) ==
    IF leg.option_type = "call" THEN Max(S - leg.strike, 0)
    ELSE Max(leg.strike - S, 0)

\* the short branch adding the intrinsic value instead of netting it
option_leg_payoff_short_adds(leg, S) ==
    IF leg.position = "long"
    THEN (intrinsic(leg, S) - leg.premium) * ContractMultiplier
    ELSE (leg.premium + intrinsic(leg, S)) * ContractMultiplier

\* the short branch without the contract multiplier
option_leg_payoff_short_unscaled(leg, S) ==
    IF leg.position = "long"
    THEN (intrinsic(leg, S) - leg.premium) * ContractMultiplier
    ELSE leg.premium - intrinsic(leg, S)

\* one pass of "for leg in self.option_legs" at terminal price S
option_leg_payoff(leg, S) ==
    IF leg.position = "long"
    THEN (intrinsic(leg, S) - leg.premium) * ContractMultiplier
    ELSE (leg.premium - intrinsic(leg, S)) * ContractMultiplier

RECURSIVE stock_loop(_, _, _)
stock_loop(legs, S, payoff) ==
    IF legs = <<>> THEN payoff
    ELSE stock_loop(Tail(legs), S, payoff + stock_leg_payoff(Head(legs), S))

\* the option loop passing over a leg that occurs again later in the list
RECURSIVE option_loop_dedup(_, _, _)
option_loop_dedup(legs, S, payoff) ==
    IF legs = <<>> THEN payoff
    ELSE IF \E i \in 2..Len(legs) : legs[i] = Head(legs)
    THEN option_loop_dedup(Tail(legs), S, payoff)
    ELSE option_loop_dedup(Tail(legs), S, payoff + option_leg_payoff(Head(legs), S))

\* the option loop assigning each leg's payoff instead of adding it: the last
\* leg of the list alone counts
RECURSIVE option_loop_assigns(_, _, _)
option_loop_assigns(legs, S, payoff) ==
    IF legs = <<>> THEN payoff
    ELSE option_loop_assigns(Tail(legs), S, option_leg_payoff(Head(legs), S))

RECURSIVE option_loop(_, _, _)
option_loop(legs, S, payoff) ==
    IF legs = <<>> THEN payoff
    ELSE option_loop(Tail(legs), S, payoff + option_leg_payoff(Head(legs), S))

\* payoff = zeros_like(S_T); stock legs, then option legs, element-wise
payoff_at_expiration(sl, ol, S_T) ==
    [i \in 1..Len(S_T) |-> option_loop(ol, S_T[i], stock_loop(sl, S_T[i], 0))]

option_leg_value(leg, S, mp) ==
    IF leg.option_type = "call"
    THEN call_price(S, leg.strike, mp.days_to_expiration, mp.risk_free_rate,
                    mp.volatility, mp.dividend_yield)
    ELSE put_price(S, leg.strike, mp.days_to_expiration, mp.risk_free_rate,
                   mp.volatility, mp.dividend_yield)

\* the P&L of a leg netted as if every leg were long
option_leg_pnl_as_long(leg, S, mp) ==
    VScale(ContractMultiplier, VSub(option_leg_value(leg, S, mp), Exact(leg.premium)))

option_leg_pnl(leg, S, mp) ==
    IF leg.position = "long"
    THEN VScale(ContractMultiplier,
                VSub(option_leg_value(leg, S, mp), Exact(leg.premium)))
    ELSE VScale(ContractMultiplier,
                VSub(Exact(leg.premium), option_leg_value(leg, S, mp)))

RECURSIVE option_pnl_loop(_, _, _, _)
option_pnl_loop(legs, S, mp, pnl) ==
    IF legs = <<>> THEN pnl
    ELSE option_pnl_loop(Tail(legs), S, mp,
                         VAdd(pnl, option_leg_pnl(Head(legs), S, mp)))

current_pnl(sl, ol, mp, S) ==
    option_pnl_loop(ol, S, mp, Exact(stock_loop(sl, S, 0)))

current_pnl_array(sl, ol, mp, S_array) ==
    [i \in 1..Len(S_array) |-> current_pnl(sl, ol, mp, S_array[i])]

\* every leg counted as long
multiplier_unsigned(leg) == 1

multiplier(leg) == IF leg.position = "long" THEN 1 ELSE -1

ZeroGreeks ==
    [delta |-> Exact(0), gamma |-> Exact(0), theta |-> Exact(0),
     vega |-> Exact(0), rho |-> Exact(0)]

RECURSIVE stock_greeks_loop(_, _)
stock_greeks_loop(legs, g) ==
    IF legs = <<>> THEN g
    ELSE stock_greeks_loop(Tail(legs),
            [g EXCEPT !.delta =
                VAdd(@, Exact(Head(legs).quantity * multiplier(Head(legs))))])

option_leg_greeks(leg, S, mp, g) ==
    LET days  == mp.days_to_expiration
        r     == mp.risk_free_rate
        sigma == mp.volatility
        q     == mp.dividend_yield
        m     == multiplier(leg) * ContractMultiplier
    IN  [delta |-> VAdd(g.delta,
                    VScale(m, delta(S, leg.strike, days, r, sigma, leg.option_type, q))),
         gamma |-> VAdd(g.gamma,
                    VScale(m, gamma(S, leg.strike, days, r, sigma, q))),
         theta |-> VAdd(g.theta,
                    VScale(m, theta(S, leg.strike, days, r, sigma, leg.option_type, q))),
         vega  |-> VAdd(g.vega,
                    VScale(m, vega(S, leg.strike, days, r, sigma, q))),
         rho   |-> VAdd(g.rho,
                    VScale(m, rho(S, leg.strike, days, r, sigma, leg.option_type, q)))]

RECURSIVE option_greeks_loop(_, _, _, _)
option_greeks_loop(legs, S, mp, g) ==
    IF legs = <<>> THEN g
    ELSE option_greeks_loop(Tail(legs), S, mp,
                            option_leg_greeks(Head(legs), S, mp, g))

greeks(sl, ol, mp, S) ==
    option_greeks_loop(ol, S, mp, stock_greeks_loop(sl, ZeroGreeks))

(***************************************************************************)
(* analyze: the grid np.linspace(S*0.5, S*1.5, 500), its extrema and the   *)
(* break-even scan.  Grid point i (from 0) is S/2 + i*S/(n-1); the spots   *)
(* of the model are multiples of 2*(n-1) ticks, so every point is a whole  *)
(* number of ticks.                                                        *)
(***************************************************************************)
linspace_half(S, n) ==
    [i \in 1..n |-> (S * ((n - 1) + 2 * (i - 1))) \div (2 * (n - 1))]

\* the first payoff of the range instead of the largest
seq_max_first(s, lo, hi) == s[lo]

\* np.max / np.min over s[lo..hi], halving the range
RECURSIVE seq_max(_, _, _)
seq_max(s, lo, hi) ==
    IF lo = hi THEN s[lo]
    ELSE LET mid == (lo + hi) \div 2
             a   == seq_max(s, lo, mid)
             b   == seq_max(s, mid + 1, hi)
         IN  IF a >= b THEN a ELSE b

\* the last payoff of the range instead of the smallest
seq_min_last(s, lo, hi) == s[hi]

RECURSIVE seq_min(_, _, _)
seq_min(s, lo, hi) ==
    IF lo = hi THEN s[lo]
    ELSE LET mid == (lo + hi) \div 2
             a   == seq_min(s, lo, mid)
             b   == seq_min(s, mid + 1, hi)
         IN  IF a <= b THEN a ELSE b

\* the sign test letting a zero payoff on the right of the pair count as a
\* crossing
sign_change_to_zero(payoffs, i) ==
    \/ payoffs[i] < 0 /\ payoffs[i + 1] >= 0
    \/ payoffs[i] > 0 /\ payoffs[i + 1] <= 0

\* the sign test letting a zero payoff on the left of the pair count as a
\* crossing
sign_change_from_zero(payoffs, i) ==
    \/ payoffs[i] <= 0 /\ payoffs[i + 1] > 0
    \/ payoffs[i] >= 0 /\ payoffs[i + 1] < 0

\* "payoffs[i] * payoffs[i+1] < 0": the product is negative exactly when the
\* two payoffs have strictly opposite signs (stated on the signs, the product
\* of two payoffs overflows TLC's 32-bit integers)
sign_change(payoffs, i) == Sgn(payoffs[i]) * Sgn(payoffs[i + 1]) < 0

\* the interpolation with the wrong sign: S_i + payoff_i * ...
interpolate_plus(S_range, payoffs, i) ==
    LET dp  == payoffs[i + 1] - payoffs[i]
        num == S_range[i] * dp + payoffs[i] * (S_range[i + 1] - S_range[i])
        g   == GCD(Abs(num), Abs(dp))
    IN  [num |-> (Sgn(dp) * num) \div g, den |-> Abs(dp) \div g]

\* be = S_i - payoff_i * (S_i+1 - S_i) / (payoff_i+1 - payoff_i), as the
\* fraction num/den in lowest terms with den > 0
interpolate(S_range, payoffs, i) ==
    LET dp  == payoffs[i + 1] - payoffs[i]
        num == S_range[i] * dp - payoffs[i] * (S_range[i + 1] - S_range[i])
        g   == GCD(Abs(num), Abs(dp))
    IN  [num |-> (Sgn(dp) * num) \div g, den |-> Abs(dp) \div g]

\* for i in range(len(payoffs) - 1): the pairs with a sign change, in order
break_even_scan(S_range, payoffs) ==
    LET crossing(i) == sign_change(payoffs, i)
        pairs == SelectSeq([i \in 1..(Len(payoffs) - 1) |-> i], crossing)
    IN  [j \in 1..Len(pairs) |-> interpolate(S_range, payoffs, pairs[j])]

analyze(sl, ol, mp, S) ==
    \* (\o <<>> leaves a sequence as it is; TLC then holds it as a list
    \* of values instead of recomputing an element at every use)
    LET S_range == linspace_half(S, GridSize) \o <<>>
        payoffs == payoff_at_expiration(sl, ol, S_range) \o <<>>
    IN  [current_pnl |-> current_pnl(sl, ol, mp, S),
         max_profit_at_expiration |-> seq_max(payoffs, 1, Len(payoffs)),
         max_loss_at_expiration |-> seq_min(payoffs, 1, Len(payoffs)),
         break_even_at_expiration |-> break_even_scan(S_range, payoffs),
         greeks |-> greeks(sl, ol, mp, S)]

(***************************************************************************)
(* Inputs of the model.  One tick is the price unit; the spots make the    *)
(* grid whole (see linspace_half), strikes lie on and between grid prices. *)
(***************************************************************************)
Spots == {4 * (GridSize - 1), 2001}

\* the spots analyze is called with: multiples of 2 * (GridSize - 1)
GridSpots == {4 * (GridSize - 1)}

\* the defaults; at expiration; zero volatility with r = q
MarketParamsInputs ==
    {DefaultMarketParams, MarketParams(5, 25, 0, 0), MarketParams(5, 0, 5, 30)}

\* every kind and position, one leg with an unknown kind and one with an
\* unknown position tag
OptionLegInputs ==
    {OptionLeg("call", "long", 1990, 7), OptionLeg("call", "short", 1990, 7),
     OptionLeg("put", "long", 2001, 3), OptionLeg("put", "short", 2001, 3),
     OptionLeg("straddle", "long", 2001, 3), OptionLeg("call", "flat", 1990, 7)}

StockLegInputs ==
    {StockLeg("long", 1996, DefaultQuantity), StockLeg("short", 1990, 50),
     StockLeg("flat", 1996, DefaultQuantity)}

PriceVectors == {<<1980, 1992, 2000, 2010>>, <<2005, 1990>>}

\* the prices current_pnl_array is called with
PnlVectors == {<<2005, 1990>>}

NoResult == [op |-> "none", arg |-> <<>>, ret |-> <<>>, raised |-> FALSE]

\* the last call on the strategy and what it returned; no statement of the
\* strategy class raises
Returned(op, arg, ret) == [op |-> op, arg |-> arg, ret |-> ret, raised |-> FALSE]

BSInputs ==
    [S : {90, 100, 110}, K : {100, 105}, days : {-1, 0, 30}, r : {0, 5},
     sigma : {-10, 0, 25}, q : {0, 5}, option_type : {"call", "put"}]

IdleArgs ==
    [S |-> 100, K |-> 100, days |-> 30, r |-> 5, sigma |-> 25, q |-> 0,
     option_type |-> "call"]

NoReturn == [op |-> "none", ret |-> Exact(0)]

\* no request in flight; no MarketParams object and no instance but the one
\* strategy of name, option_legs, stock_legs and market_params
NoHandlers == <<>>

NoObjects == <<>>

NoCall == [op |-> "none", self |-> 0]

(***************************************************************************)
(* The strategy: construction, the two mutators, the queries and three     *)
(* catalog factories.                                                      *)
(***************************************************************************)
\* OptionsStrategy.__init__(name, market_params)
Init ==
    /\ name = "Custom"
    /\ option_legs = <<>>
    /\ stock_legs = <<>>
    /\ market_params \in MarketParamsInputs
    /\ result = NoResult
    /\ bs_args = IdleArgs
    /\ bs_ret = NoReturn
    /\ handlers = NoHandlers
    /\ heap = NoObjects
    /\ instances = NoObjects
    /\ call = NoCall

\* add_option_leg inserting the new leg at the front of the list
AddOptionLeg_prepends ==
    \E leg \in OptionLegInputs :
        /\ Len(option_legs) + Len(stock_legs) < MaxLegs
        /\ option_legs' = <<OptionLeg(leg.option_type, leg.position, leg.strike,
                                      leg.premium)>> \o option_legs
        /\ result' = Returned("add_option_leg", leg, "None")
        /\ UNCHANGED <<name, stock_legs, market_params, bs_args, bs_ret, api_vars, alias_vars>>

AddOptionLeg ==
    \E leg \in OptionLegInputs :
        /\ Len(option_legs) + Len(stock_legs) < MaxLegs
        /\ option_legs' = Append(option_legs,
              OptionLeg(leg.option_type, leg.position, leg.strike, leg.premium))
        /\ result' = Returned("add_option_leg", leg, "None")
        /\ UNCHANGED <<name, stock_legs, market_params, bs_args, bs_ret, api_vars, alias_vars>>

AddStockLeg ==
    \E leg \in StockLegInputs :
        /\ Len(option_legs) + Len(stock_legs) < MaxLegs
        /\ stock_legs' = Append(stock_legs,
              StockLeg(leg.position, leg.price, leg.quantity))
        /\ result' = Returned("add_stock_leg", leg, "None")
        /\ UNCHANGED <<name, option_legs, market_params, bs_args, bs_ret, api_vars, alias_vars>>

\* payoff_at_expiration keeping its last return and handing it out again,
\* whatever the prices asked for
PayoffAtExpiration_cached ==
    \E S_T \in PriceVectors :
        /\ result' = Returned("payoff_at_expiration", S_T,
                        IF result.op = "payoff_at_expiration" THEN result.ret
                        ELSE payoff_at_expiration(stock_legs, option_legs, S_T))
        /\ UNCHANGED <<name, option_legs, stock_legs, market_params, bs_args, bs_ret, api_vars, alias_vars>>

\* (the vector S_T is read, never written: result.arg is the caller's vector
\* as the call leaves it)
PayoffAtExpiration ==
    \E S_T \in PriceVectors :
        /\ result' = Returned("payoff_at_expiration", S_T,
                        payoff_at_expiration(stock_legs, option_legs, S_T))
        /\ UNCHANGED <<name, option_legs, stock_legs, market_params, bs_args, bs_ret, api_vars, alias_vars>>

CurrentPnl ==
    \E S \in Spots :
        /\ result' = Returned("current_pnl", S,
                        current_pnl(stock_legs, option_legs, market_params, S))
        /\ UNCHANGED <<name, option_legs, stock_legs, market_params, bs_args, bs_ret, api_vars, alias_vars>>

CurrentPnlArray ==
    \E S_array \in PnlVectors :
        /\ result' = Returned("current_pnl_array", S_array,
                        current_pnl_array(stock_legs, option_legs, market_params, S_array))
        /\ UNCHANGED <<name, option_legs, stock_legs, market_params, bs_args, bs_ret, api_vars, alias_vars>>

Greeks ==
    \E S \in Spots :
        /\ result' = Returned("greeks", S,
                        greeks(stock_legs, option_legs, market_params, S))
        /\ UNCHANGED <<name, option_legs, stock_legs, market_params, bs_args, bs_ret, api_vars, alias_vars>>

Analyze ==
    \E S \in GridSpots :
        /\ result' = Returned("analyze", S,
                        analyze(stock_legs, option_legs, market_params, S))
        /\ UNCHANGED <<name, option_legs, stock_legs, market_params, bs_args, bs_ret, api_vars, alias_vars>>

\* the spread with its positions exchanged (a bear call spread)
bull_call_spread_exchanged(lower_strike, upper_strike, lower_premium, upper_premium) ==
    /\ name' = "Bull Call Spread"
    /\ option_legs' = <<OptionLeg("call", "short", lower_strike, lower_premium),
                        OptionLeg("call", "long", upper_strike, upper_premium)>>
    /\ stock_legs' = <<>>
    /\ result' = NoResult
    /\ UNCHANGED <<market_params, bs_args, bs_ret, api_vars, alias_vars>>

\* a factory returns a fresh strategy holding its legs; the caller's
\* market_params are handed through
bull_call_spread(lower_strike, upper_strike, lower_premium, upper_premium) ==
    /\ name' = "Bull Call Spread"
    /\ option_legs' = <<OptionLeg("call", "long", lower_strike, lower_premium),
                        OptionLeg("call", "short", upper_strike, upper_premium)>>
    /\ stock_legs' = <<>>
    /\ result' = NoResult
    /\ UNCHANGED <<market_params, bs_args, bs_ret, api_vars, alias_vars>>

long_straddle(strike, call_premium, put_premium) ==
    /\ name' = "Long Straddle"
    /\ option_legs' = <<OptionLeg("call", "long", strike, call_premium),
                        OptionLeg("put", "long", strike, put_premium)>>
    /\ stock_legs' = <<>>
    /\ result' = NoResult
    /\ UNCHANGED <<market_params, bs_args, bs_ret, api_vars, alias_vars>>

iron_condor(put_lower, put_upper, call_lower, call_upper, put_lower_prem, put_upper_prem, call_lower_prem, call_upper_prem) ==
    /\ name' = "Iron Condor"
    /\ option_legs' = <<OptionLeg("put", "long", put_lower, put_lower_prem),
                        OptionLeg("put", "short", put_upper, put_upper_prem),
                        OptionLeg("call", "short", call_lower, call_lower_prem),
                        OptionLeg("call", "long", call_upper, call_upper_prem)>>
    /\ stock_legs' = <<>>
    /\ result' = NoResult
    /\ UNCHANGED <<market_params, bs_args, bs_ret, api_vars, alias_vars>>

BullCallSpread ==
    \E K1 \in {1990, 1994}, K2 \in {1994, 2003}, p1 \in {7, 9}, p2 \in {3, 9} :
        bull_call_spread(K1, K2, p1, p2)

LongStraddle ==
    \E K \in {1996, 1997}, c \in {0, 3}, p \in {1, 2, 3} :
        long_straddle(K, c, p)

IronCondor ==
    \E pl \in {1980, 1993}, pu \in {1990, 1995}, cl \in {1997, 2010},
       prem \in {<<1, 3, 3, 1>>, <<2, 2, 4, 1>>} :
        iron_condor(pl, pu, cl, 2020, prem[1], prem[2], prem[3], prem[4])

Next ==
    \/ AddOptionLeg
    \/ AddStockLeg
    \/ PayoffAtExpiration
    \/ CurrentPnl
    \/ CurrentPnlArray
    \/ Greeks
    \/ Analyze
    \/ BullCallSpread
    \/ LongStraddle
    \/ IronCondor

Spec == Init /\ [][Next]_vars

(***************************************************************************)
(* The pricing engine on its own: the arguments are drawn at the start and *)
(* each step calls one of the seven static methods on them.                *)
(***************************************************************************)
InitBS ==
    /\ name = "Custom"
    /\ option_legs = <<>>
    /\ stock_legs = <<>>
    /\ market_params = DefaultMarketParams
    /\ result = NoResult
    /\ bs_args \in BSInputs
    /\ bs_ret = NoReturn
    /\ handlers = NoHandlers
    /\ heap = NoObjects
    /\ instances = NoObjects
    /\ call = NoCall

BSUnchanged ==
    UNCHANGED <<name, option_legs, stock_legs, market_params, result, bs_args,
                api_vars, alias_vars>>

CallPrice ==
    /\ bs_ret' = [op |-> "call_price",
                  ret |-> call_price(bs_args.S, bs_args.K, bs_args.days,
                                     bs_args.r, bs_args.sigma, bs_args.q)]
    /\ BSUnchanged

PutPrice ==
    /\ bs_ret' = [op |-> "put_price",
                  ret |-> put_price(bs_args.S, bs_args.K, bs_args.days,
                                    bs_args.r, bs_args.sigma, bs_args.q)]
    /\ BSUnchanged

Delta ==
    /\ bs_ret' = [op |-> "delta",
                  ret |-> delta(bs_args.S, bs_args.K, bs_args.days, bs_args.r,
                                bs_args.sigma, bs_args.option_type, bs_args.q)]
    /\ BSUnchanged

Gamma ==
    /\ bs_ret' = [op |-> "gamma",
                  ret |-> gamma(bs_args.S, bs_args.K, bs_args.days, bs_args.r,
                                bs_args.sigma, bs_args.q)]
    /\ BSUnchanged

Theta ==
    /\ bs_ret' = [op |-> "theta",
                  ret |-> theta(bs_args.S, bs_args.K, bs_args.days, bs_args.r,
                                bs_args.sigma, bs_args.option_type, bs_args.q)]
    /\ BSUnchanged

Vega ==
    /\ bs_ret' = [op |-> "vega",
                  ret |-> vega(bs_args.S, bs_args.K, bs_args.days, bs_args.r,
                               bs_args.sigma, bs_args.q)]
    /\ BSUnchanged

Rho ==
    /\ bs_ret' = [op |-> "rho",
                  ret |-> rho(bs_args.S, bs_args.K, bs_args.days, bs_args.r,
                              bs_args.sigma, bs_args.option_type, bs_args.q)]
    /\ BSUnchanged

NextBS ==
    \/ CallPrice
    \/ PutPrice
    \/ Delta
    \/ Gamma
    \/ Theta
    \/ Vega
    \/ Rho

SpecBS == InitBS /\ [][NextBS]_vars

(***************************************************************************)
(* The analysis endpoint (api/main.py, analyze_strategy).  Each request in *)
(* flight is one invocation of the handler with its own locals; a step of  *)
(* the model is one statement group of one invocation, so the invocations  *)
(* interleave freely.  A request is the parsed StrategyRequest: its legs   *)
(* and market_params are dicts (records that may lack keys).               *)
(***************************************************************************)
PayoffGridSize == 300

\* Python's None, for a local not yet assigned and for an absent ratio
None == [none |-> TRUE]

Handlers == {"h1", "h2"}

MarketParamsFields ==
    {"risk_free_rate", "volatility", "dividend_yield", "days_to_expiration"}

\* dict.get(key, default)
Get(d, key, default) == IF key \in DOMAIN d THEN d[key] ELSE default

\* MarketParams(**request.market_params): absent fields take the defaults
market_params_from(d) ==
    MarketParams(Get(d, "risk_free_rate", DefaultMarketParams.risk_free_rate),
                 Get(d, "volatility", DefaultMarketParams.volatility),
                 Get(d, "dividend_yield", DefaultMarketParams.dividend_yield),
                 Get(d, "days_to_expiration", DefaultMarketParams.days_to_expiration))

\* HTTPException(status_code=500, detail=str(e))
HTTPException(detail) == [status_code |-> 500, detail |-> detail]

\* leg['option_type'], leg['position'], leg['strike'], leg['premium']: the
\* first key the dict lacks raises KeyError
OptionLegKeys == <<"option_type", "position", "strike", "premium">>

StockLegKeys == <<"position", "price">>

missing_keys(leg, keys) == SelectSeq(keys, LAMBDA k : k \notin DOMAIN leg)

\* the price grid of the response, np.linspace(S*0.5, S*1.5, n), in units of
\* 1/(n-1) tick: point i (from 0) is S/2 + i*S/(n-1), that is
\* (S*(n-1)/2 + i*S) / (n-1)
linspace_scaled(S, n) ==
    [i \in 1..n |-> (S * ((n - 1) + 2 * (i - 1))) \div 2]

\* the legs in units of 1/c tick.  The payoff and the prices of the engine
\* are homogeneous of degree one in (S, K, premium), so the strategy's
\* values on the scaled grid are the values on the grid, in units of 1/c
scaled_option_leg(leg, c) ==
    OptionLeg(leg.option_type, leg.position, c * leg.strike, c * leg.premium)

scaled_stock_leg(leg, c) == StockLeg(leg.position, c * leg.price, leg.quantity)

\* S_range, payoff_exp and payoff_current of the handler
payoff_data(sl, ol, mp, stock_price) ==
    LET c       == PayoffGridSize - 1
        S_range == linspace_scaled(stock_price, PayoffGridSize) \o <<>>
        ssl     == [i \in 1..Len(sl) |-> scaled_stock_leg(sl[i], c)]
        sol     == [i \in 1..Len(ol) |-> scaled_option_leg(ol[i], c)]
    IN  [per_tick |-> c,
         stock_prices |-> S_range,
         payoff_expiration |-> payoff_at_expiration(ssl, sol, S_range) \o <<>>,
         payoff_current |-> current_pnl_array(ssl, sol, mp, S_range) \o <<>>]

\* the ratio computed whenever there is a loss, whatever the profit
risk_reward_ratio_any_profit(analysis) ==
    LET max_loss   == analysis.max_loss_at_expiration
        max_profit == analysis.max_profit_at_expiration
        g          == GCD(Abs(max_profit), Abs(max_loss))
    IN  IF max_loss < 0
        THEN [num |-> max_profit \div g, den |-> Abs(max_loss) \div g]
        ELSE None

\* max_profit / abs(max_loss) as the fraction num/den in lowest terms
risk_reward_ratio(analysis) ==
    LET max_loss   == analysis.max_loss_at_expiration
        max_profit == analysis.max_profit_at_expiration
        g          == GCD(Abs(max_profit), Abs(max_loss))
    IN  IF max_loss < 0 /\ max_profit > 0
        THEN [num |-> max_profit \div g, den |-> Abs(max_loss) \div g]
        ELSE None

AnalysisResponse(analysis, rr_ratio, data) ==
    [status_code |-> 200,
     current_pnl |-> analysis.current_pnl,
     max_profit |-> analysis.max_profit_at_expiration,
     max_loss |-> analysis.max_loss_at_expiration,
     break_evens |-> analysis.break_even_at_expiration,
     greeks |-> analysis.greeks,
     risk_reward_ratio |-> rr_ratio,
     payoff_data |-> data]

\* the requests of the model, all at the spot of GridSpots: a spread with a
\* defined ratio; a free long call (max loss 0); a free short call (max
\* profit 0); no legs and no parameters; a negative strike; a zero stock
\* price under negative volatility; a leg without its premium
Requests ==
    {[strategy_name |-> "Bull Call Spread", stock_price |-> 4 * (GridSize - 1),
      option_legs |-> <<[option_type |-> "call", position |-> "long",
                         strike |-> 1990, premium |-> 7],
                        [option_type |-> "call", position |-> "short",
                         strike |-> 2003, premium |-> 3]>>,
      stock_legs |-> <<>>,
      market_params |-> [x \in {"volatility"} |-> 25]],
     [strategy_name |-> "Long Call", stock_price |-> 4 * (GridSize - 1),
      option_legs |-> <<[option_type |-> "call", position |-> "long",
                         strike |-> 1990, premium |-> 0]>>,
      stock_legs |-> <<>>,
      market_params |-> [x \in {"days_to_expiration"} |-> 0]],
     [strategy_name |-> "Short Call", stock_price |-> 4 * (GridSize - 1),
      option_legs |-> <<[option_type |-> "call", position |-> "short",
                         strike |-> 1990, premium |-> 0]>>,
      stock_legs |-> <<>>,
      market_params |-> [x \in {"volatility"} |-> 25]],
     [strategy_name |-> "Custom", stock_price |-> 4 * (GridSize - 1),
      option_legs |-> <<>>,
      stock_legs |-> <<>>,
      market_params |-> [x \in {} |-> 0]],
     [strategy_name |-> "Custom", stock_price |-> 4 * (GridSize - 1),
      option_legs |-> <<[option_type |-> "call", position |-> "long",
                         strike |-> -5, premium |-> 1]>>,
      stock_legs |-> <<>>,
      market_params |-> [x \in {"volatility"} |-> 25]],
     [strategy_name |-> "Protective Put", stock_price |-> 4 * (GridSize - 1),
      option_legs |-> <<[option_type |-> "put", position |-> "long",
                         strike |-> 2001, premium |-> 3]>>,
      stock_legs |-> <<[position |-> "long", price |-> 0],
                       [position |-> "short", price |-> 1990, quantity |-> 50]>>,
      market_params |-> [x \in {"volatility"} |-> -10]],
     [strategy_name |-> "Custom", stock_price |-> 4 * (GridSize - 1),
      option_legs |-> <<[option_type |-> "call", position |-> "long",
                         strike |-> 1990]>>,
      stock_legs |-> <<>>,
      market_params |-> [x \in {"volatility"} |-> 25]]}

\* the locals of one invocation before its first statement
Invocation(request) ==
    [pc |-> "market_params", request |-> request, market_params |-> None,
     strategy |-> None, analysis |-> None, payoff_data |-> None,
     rr_ratio |-> None, response |-> None]

\* except Exception as e: raise HTTPException(500, str(e))
Raised(h, detail) ==
    [handlers EXCEPT ![h].pc = "done", ![h].response = HTTPException(detail)]

APIUnchanged == UNCHANGED <<strategy_vars, engine_vars, alias_vars>>

InitAPI ==
    /\ name = "Custom"
    /\ option_legs = <<>>
    /\ stock_legs = <<>>
    /\ market_params = DefaultMarketParams
    /\ result = NoResult
    /\ bs_args = IdleArgs
    /\ bs_ret = NoReturn
    /\ handlers \in [Handlers -> {Invocation(r) : r \in Requests}]
    /\ heap = NoObjects
    /\ instances = NoObjects
    /\ call = NoCall

\* the strategy kept in one module-level name: a new one replaces the
\* strategy every invocation in flight is working on
NewStrategy_module_level ==
    \E h \in Handlers :
        /\ handlers[h].pc = "market_params"
        /\ handlers' =
              IF DOMAIN handlers[h].request.market_params \subseteq MarketParamsFields
              THEN [g \in Handlers |->
                      IF g = h \/ handlers[g].strategy # None
                      THEN [handlers[g] EXCEPT
                              !.pc = IF g = h THEN "option_legs" ELSE @,
                              !.market_params =
                                  market_params_from(handlers[h].request.market_params),
                              !.strategy =
                                  [name |-> handlers[h].request.strategy_name,
                                   option_legs |-> <<>>, stock_legs |-> <<>>,
                                   market_params |->
                                       market_params_from(handlers[h].request.market_params)]]
                      ELSE handlers[g]]
              ELSE Raised(h, "unexpected keyword argument")
        /\ APIUnchanged

\* market_params = MarketParams(**request.market_params)
\* strategy = OptionsStrategy(request.strategy_name, market_params)
NewStrategy ==
    \E h \in Handlers :
        /\ handlers[h].pc = "market_params"
        /\ handlers' =
              IF DOMAIN handlers[h].request.market_params \subseteq MarketParamsFields
              THEN [handlers EXCEPT
                      ![h].pc = "option_legs",
                      ![h].market_params =
                          market_params_from(handlers[h].request.market_params),
                      ![h].strategy =
                          [name |-> handlers[h].request.strategy_name,
                           option_legs |-> <<>>, stock_legs |-> <<>>,
                           market_params |->
                               market_params_from(handlers[h].request.market_params)]]
              ELSE Raised(h, "unexpected keyword argument")
        /\ APIUnchanged

\* one pass of "for leg in request.option_legs", or its end
AddOptionLegs ==
    \E h \in Handlers :
        LET todo == handlers[h].request.option_legs
            done == Len(handlers[h].strategy.option_legs)
            leg  == todo[done + 1]
        IN  /\ handlers[h].pc = "option_legs"
            /\ handlers' =
                  IF done = Len(todo)
                  THEN [handlers EXCEPT ![h].pc = "stock_legs"]
                  ELSE IF missing_keys(leg, OptionLegKeys) # <<>>
                  THEN Raised(h, Head(missing_keys(leg, OptionLegKeys)))
                  ELSE [handlers EXCEPT ![h].strategy.option_legs =
                          Append(@, OptionLeg(leg.option_type, leg.position,
                                              leg.strike, leg.premium))]
            /\ APIUnchanged

\* one pass of "for leg in request.stock_legs", or its end
AddStockLegs ==
    \E h \in Handlers :
        LET todo == handlers[h].request.stock_legs
            done == Len(handlers[h].strategy.stock_legs)
            leg  == todo[done + 1]
        IN  /\ handlers[h].pc = "stock_legs"
            /\ handlers' =
                  IF done = Len(todo)
                  THEN [handlers EXCEPT ![h].pc = "analyze"]
                  ELSE IF missing_keys(leg, StockLegKeys) # <<>>
                  THEN Raised(h, Head(missing_keys(leg, StockLegKeys)))
                  ELSE [handlers EXCEPT ![h].strategy.stock_legs =
                          Append(@, StockLeg(leg.position, leg.price,
                                             Get(leg, "quantity", DefaultQuantity)))]
            /\ APIUnchanged

\* analysis = strategy.analyze(request.stock_price)
AnalyzeRequest ==
    \E h \in Handlers :
        /\ handlers[h].pc = "analyze"
        /\ handlers' = [handlers EXCEPT
              ![h].pc = "payoff_data",
              ![h].analysis = analyze(handlers[h].strategy.stock_legs,
                                      handlers[h].strategy.option_legs,
                                      handlers[h].strategy.market_params,
                                      handlers[h].request.stock_price)]
        /\ APIUnchanged

\* S_range, payoff_exp, payoff_current
PayoffData ==
    \E h \in Handlers :
        /\ handlers[h].pc = "payoff_data"
        /\ handlers' = [handlers EXCEPT
              ![h].pc = "rr_ratio",
              ![h].payoff_data = payoff_data(handlers[h].strategy.stock_legs,
                                             handlers[h].strategy.option_legs,
                                             handlers[h].strategy.market_params,
                                             handlers[h].request.stock_price)]
        /\ APIUnchanged

\* rr_ratio = None; if max_loss < 0 and max_profit > 0: rr_ratio = ...
RiskReward ==
    \E h \in Handlers :
        /\ handlers[h].pc = "rr_ratio"
        /\ handlers' = [handlers EXCEPT
              ![h].pc = "return",
              ![h].rr_ratio = risk_reward_ratio(handlers[h].analysis)]
        /\ APIUnchanged

\* return AnalysisResponse(...)
Respond ==
    \E h \in Handlers :
        /\ handlers[h].pc = "return"
        /\ handlers' = [handlers EXCEPT
              ![h].pc = "done",
              ![h].response = AnalysisResponse(handlers[h].analysis,
                                               handlers[h].rr_ratio,
                                               handlers[h].payoff_data)]
        /\ APIUnchanged

\* the handler run from its first statement to its return or raise, alone
first_bad(legs, keys) ==
    SelectSeq([i \in 1..Len(legs) |-> i],
              LAMBDA i : missing_keys(legs[i], keys) # <<>>)

analyze_strategy(request) ==
    LET bad_option == first_bad(request.option_legs, OptionLegKeys)
        bad_stock  == first_bad(request.stock_legs, StockLegKeys)
        mp == market_params_from(request.market_params)
        ol == [i \in 1..Len(request.option_legs) |->
                 OptionLeg(request.option_legs[i].option_type,
                           request.option_legs[i].position,
                           request.option_legs[i].strike,
                           request.option_legs[i].premium)]
        sl == [i \in 1..Len(request.stock_legs) |->
                 StockLeg(request.stock_legs[i].position,
                          request.stock_legs[i].price,
                          Get(request.stock_legs[i], "quantity", DefaultQuantity))]
        analysis == analyze(sl, ol, mp, request.stock_price)
    IN  IF ~(DOMAIN request.market_params \subseteq MarketParamsFields)
        THEN HTTPException("unexpected keyword argument")
        ELSE IF bad_option # <<>>
        THEN HTTPException(Head(missing_keys(request.option_legs[Head(bad_option)],
                                             OptionLegKeys)))
        ELSE IF bad_stock # <<>>
        THEN HTTPException(Head(missing_keys(request.stock_legs[Head(bad_stock)],
                                             StockLegKeys)))
        ELSE AnalysisResponse(analysis, risk_reward_ratio(analysis),
                              payoff_data(sl, ol, mp, request.stock_price))

NextAPI ==
    \/ NewStrategy
    \/ AddOptionLegs
    \/ AddStockLegs
    \/ AnalyzeRequest
    \/ PayoffData
    \/ RiskReward
    \/ Respond

SpecAPI == InitAPI /\ [][NextAPI]_vars

(***************************************************************************)
(* Several strategies side by side.  MarketParams objects live on a heap   *)
(* (heap[a] is the object at address a) and an instance's market_params is *)
(* the address __init__ stored: "market_params or MarketParams()" keeps    *)
(* the caller's object when one is given and makes a new one otherwise.    *)
(* MarketParams is a plain dataclass, so its fields can be assigned.       *)
(***************************************************************************)
MaxObjects == 3

MaxInstances == 2

MaxInstanceLegs == 1

\* the volatilities assigned to the field of a MarketParams object
AssignedVolatilities == {0, 40}

InstanceUnchanged == UNCHANGED <<strategy_vars, engine_vars, api_vars>>

InitInstances ==
    /\ name = "Custom"
    /\ option_legs = <<>>
    /\ stock_legs = <<>>
    /\ market_params = DefaultMarketParams
    /\ result = NoResult
    /\ bs_args = IdleArgs
    /\ bs_ret = NoReturn
    /\ handlers = NoHandlers
    /\ heap = NoObjects
    /\ instances = NoObjects
    /\ call = NoCall

\* the caller's mp = MarketParams(...)
MakeMarketParams ==
    \E mp \in {DefaultMarketParams, MarketParams(5, 40, 0, 30)} :
        /\ Len(heap) < MaxObjects
        /\ heap' = Append(heap, mp)
        /\ call' = [op |-> "MarketParams", self |-> 0]
        /\ UNCHANGED instances
        /\ InstanceUnchanged

\* OptionsStrategy(name): market_params is None, so a new MarketParams()
ConstructDefault ==
    /\ Len(instances) < MaxInstances
    /\ Len(heap) < MaxObjects
    /\ heap' = Append(heap, DefaultMarketParams)
    /\ instances' = Append(instances,
          [name |-> "Custom", option_legs |-> <<>>, stock_legs |-> <<>>,
           market_params |-> Len(heap) + 1])
    /\ call' = [op |-> "__init__", self |-> Len(instances) + 1]
    /\ InstanceUnchanged

\* OptionsStrategy(name, mp): the object given is the object kept
ConstructWithParams ==
    \E a \in 1..Len(heap) :
        /\ Len(instances) < MaxInstances
        /\ instances' = Append(instances,
              [name |-> "Custom", option_legs |-> <<>>, stock_legs |-> <<>>,
               market_params |-> a])
        /\ call' = [op |-> "__init__", self |-> Len(instances) + 1]
        /\ UNCHANGED heap
        /\ InstanceUnchanged

InstanceAddOptionLeg ==
    \E i \in 1..Len(instances), leg \in {OptionLeg("call", "long", 1990, 7)} :
        /\ Len(instances[i].option_legs) + Len(instances[i].stock_legs) < MaxInstanceLegs
        /\ instances' = [instances EXCEPT ![i].option_legs =
              Append(@, OptionLeg(leg.option_type, leg.position, leg.strike,
                                  leg.premium))]
        /\ call' = [op |-> "add_option_leg", self |-> i]
        /\ UNCHANGED heap
        /\ InstanceUnchanged

InstanceAddStockLeg ==
    \E i \in 1..Len(instances), leg \in {StockLeg("long", 1996, DefaultQuantity)} :
        /\ Len(instances[i].option_legs) + Len(instances[i].stock_legs) < MaxInstanceLegs
        /\ instances' = [instances EXCEPT ![i].stock_legs =
              Append(@, StockLeg(leg.position, leg.price, leg.quantity))]
        /\ call' = [op |-> "add_stock_leg", self |-> i]
        /\ UNCHANGED heap
        /\ InstanceUnchanged

\* strategy.market_params.volatility = v, through instance i
SetVolatility ==
    \E i \in 1..Len(instances), v \in AssignedVolatilities :
        /\ heap' = [heap EXCEPT ![instances[i].market_params].volatility = v]
        /\ call' = [op |-> "market_params.volatility =", self |-> i]
        /\ UNCHANGED instances
        /\ InstanceUnchanged

NextInstances ==
    \/ MakeMarketParams
    \/ ConstructDefault
    \/ ConstructWithParams
    \/ InstanceAddOptionLeg
    \/ InstanceAddStockLeg
    \/ SetVolatility

SpecInstances == InitInstances /\ [][NextInstances]_vars

(***************************************************************************)
(* Properties.                                                             *)
(***************************************************************************)
ValidOptionLeg(leg) ==
    leg.option_type \in {"call", "put"} /\ leg.position \in {"long", "short"}

ValidStockLeg(leg) == leg.position \in {"long", "short"}

ValidLegs ==
    /\ \A i \in 1..Len(option_legs) : ValidOptionLeg(option_legs[i])
    /\ \A i \in 1..Len(stock_legs) : ValidStockLeg(stock_legs[i])

QueryOps ==
    {"payoff_at_expiration", "current_pnl", "current_pnl_array", "greeks", "analyze"}

\* the payoff as C1 words it: a sum of per-leg terms, one case per kind and
\* position
C1_OptionTerm(leg, S_T) ==
    CASE leg.option_type = "call" /\ leg.position = "long" ->
            (Max(S_T - leg.strike, 0) - leg.premium) * 100
      [] leg.option_type = "call" /\ leg.position = "short" ->
            (leg.premium - Max(S_T - leg.strike, 0)) * 100
      [] leg.option_type = "put" /\ leg.position = "long" ->
            (Max(leg.strike - S_T, 0) - leg.premium) * 100
      [] leg.option_type = "put" /\ leg.position = "short" ->
            (leg.premium - Max(leg.strike - S_T, 0)) * 100

C1_StockTerm(leg, S_T) ==
    CASE leg.position = "long" -> (S_T - leg.price) * leg.quantity
      [] leg.position = "short" -> (leg.price - S_T) * leg.quantity

RECURSIVE C1_OptionSum(_, _, _)
C1_OptionSum(legs, n, S_T) ==
    IF n = 0 THEN 0
    ELSE C1_OptionSum(legs, n - 1, S_T) + C1_OptionTerm(legs[n], S_T)

RECURSIVE C1_StockSum(_, _, _)
C1_StockSum(legs, n, S_T) ==
    IF n = 0 THEN 0
    ELSE C1_StockSum(legs, n - 1, S_T) + C1_StockTerm(legs[n], S_T)

\* C1: for every strategy whose legs carry kinds call/put and positions
\* long/short, payoff_at_expiration returns, at each index of its input, the
\* sum of the stock-leg terms and the option-leg terms at that price (0 for
\* the empty strategy), one value per input price.
C1_PayoffIsSumOfLegs ==
    (result.op = "payoff_at_expiration" /\ ValidLegs) =>
        /\ Len(result.ret) = Len(result.arg)
        /\ \A i \in 1..Len(result.arg) :
              result.ret[i] =
                  C1_StockSum(stock_legs, Len(stock_legs), result.arg[i])
                  + C1_OptionSum(option_legs, Len(option_legs), result.arg[i])

\* a payoff query on a strategy holding a stock leg, a short option leg and
\* an option leg in the money at one of the prices
C1_Witness ==
    /\ result.op = "payoff_at_expiration"
    /\ ValidLegs
    /\ Len(stock_legs) >= 1
    /\ \E i \in 1..Len(option_legs) : option_legs[i].position = "short"
    /\ \E i \in 1..Len(option_legs), j \in 1..Len(result.arg) :
          intrinsic(option_legs[i], result.arg[j]) > 0

C2_NetZero ==
    /\ stock_legs = <<>>
    /\ Len(option_legs) = 2
    /\ \E i, j \in 1..2 :
          /\ i # j
          /\ option_legs[i].option_type = "call"
          /\ option_legs[i].position = "long"
          /\ option_legs[j].option_type = "call"
          /\ option_legs[j].position = "short"
          /\ option_legs[i].strike = option_legs[j].strike
          /\ option_legs[i].premium = option_legs[j].premium

\* C2: one long call and one short call with the same strike and the same
\* premium: payoff_at_expiration is 0 at every input price.
C2_NetZeroPayoffIsZero ==
    (result.op = "payoff_at_expiration" /\ C2_NetZero) =>
        \A i \in 1..Len(result.arg) : result.ret[i] = 0

\* the net-zero pair queried at a price above the strike, where each leg
\* alone pays a non-zero amount
C2_Witness ==
    /\ result.op = "payoff_at_expiration"
    /\ C2_NetZero
    /\ \E i \in 1..Len(result.arg) : result.arg[i] > option_legs[1].strike
    /\ option_legs[1].premium > 0

C3_BullCallSpread ==
    /\ name = "Bull Call Spread"
    /\ stock_legs = <<>>
    /\ Len(option_legs) = 2
    /\ option_legs[1].strike < option_legs[2].strike
    /\ result.op = "payoff_at_expiration"

C3_PremiumPaid == option_legs[1].premium - option_legs[2].premium

C3_Monotone ==
    \A i, j \in 1..Len(result.arg) :
        result.arg[i] <= result.arg[j] => result.ret[i] <= result.ret[j]

\* C3 as claimed: the payoff of a bull call spread (K1 < K2) is monotonically
\* non-decreasing in S_T and lies in
\* [-(premium paid), (K2 - K1) - (premium paid)] at every price.
C3_Claimed ==
    C3_BullCallSpread =>
        /\ C3_Monotone
        /\ \A i \in 1..Len(result.arg) :
              /\ -C3_PremiumPaid <= result.ret[i]
              /\ result.ret[i] <=
                    (option_legs[2].strike - option_legs[1].strike) - C3_PremiumPaid

\* C3 amended: the payoff of a bull call spread (K1 < K2) is monotonically
\* non-decreasing in S_T and lies in
\* [-(premium paid) * 100, ((K2 - K1) - (premium paid)) * 100] at every price:
\* the bounds carry the contract multiplier, as the payoff does.
C3_BoundedPerContract ==
    C3_BullCallSpread =>
        /\ C3_Monotone
        /\ \A i \in 1..Len(result.arg) :
              /\ -C3_PremiumPaid * 100 <= result.ret[i]
              /\ result.ret[i] <=
                    ((option_legs[2].strike - option_legs[1].strike)
                     - C3_PremiumPaid) * 100

\* a bull call spread queried below K1, between the strikes and above K2:
\* both bounds are attained
C3_Witness ==
    /\ C3_BullCallSpread
    /\ \E i \in 1..Len(result.arg) : result.ret[i] = -C3_PremiumPaid * 100
    /\ \E i \in 1..Len(result.arg) :
          result.ret[i] = ((option_legs[2].strike - option_legs[1].strike)
                           - C3_PremiumPaid) * 100
    /\ \E i \in 1..Len(result.arg) :
          /\ option_legs[1].strike < result.arg[i]
          /\ result.arg[i] < option_legs[2].strike

\* grid price i of the analyze call whose return is held, and the expiration
\* payoff of the strategy at one price
GridPrice(i) == linspace_half(result.arg, GridSize)[i]

PayoffAt(S_T) == payoff_at_expiration(stock_legs, option_legs, <<S_T>>)[1]

C4_IronCondor ==
    /\ name = "Iron Condor"
    /\ stock_legs = <<>>
    /\ Len(option_legs) = 4
    /\ result.op = "analyze"
    /\ option_legs[1].strike < option_legs[2].strike
    /\ option_legs[2].strike < result.arg
    /\ result.arg < option_legs[3].strike
    /\ option_legs[3].strike < option_legs[4].strike

C4_NetPremium ==
    (option_legs[2].premium + option_legs[3].premium
     - option_legs[1].premium - option_legs[4].premium) * 100

\* grid prices strictly between the short strikes, and from one to the other
C4_Between ==
    {i \in 1..GridSize : /\ option_legs[2].strike < GridPrice(i)
                         /\ GridPrice(i) < option_legs[3].strike}

C4_Within ==
    {i \in 1..GridSize : /\ option_legs[2].strike <= GridPrice(i)
                         /\ GridPrice(i) <= option_legs[3].strike}

C4_FlatBetween ==
    \A i \in C4_Between : PayoffAt(GridPrice(i)) = C4_NetPremium

\* C4 as claimed: for an iron condor with put_lower < put_upper < spot <
\* call_lower < call_upper, analyze(spot) returns max_profit_at_expiration
\* equal to the net premium received times 100, and the payoff has that value
\* at every grid price strictly between the short strikes.
C4_Claimed ==
    C4_IronCondor =>
        /\ result.ret.max_profit_at_expiration = C4_NetPremium
        /\ C4_FlatBetween

\* C4 amended: for such an iron condor max_profit_at_expiration is the net
\* premium received times 100 when at least one grid price lies in
\* [put_upper, call_lower] and is smaller when none does; the payoff equals
\* the net premium times 100 at every grid price strictly between the short
\* strikes.
C4_MaxProfitOnGrid ==
    C4_IronCondor =>
        /\ result.ret.max_profit_at_expiration <= C4_NetPremium
        /\ (result.ret.max_profit_at_expiration = C4_NetPremium) <=> (C4_Within # {})
        /\ C4_FlatBetween

\* an analysed iron condor with grid prices between its short strikes, whose
\* max profit is the net premium
C4_Witness ==
    /\ C4_IronCondor
    /\ C4_Between # {}
    /\ result.ret.max_profit_at_expiration = C4_NetPremium
    /\ C4_NetPremium > 0

C5_Total == option_legs[1].premium + option_legs[2].premium

C5_Low == option_legs[1].strike - C5_Total

C5_High == option_legs[1].strike + C5_Total

C5_LongStraddle ==
    /\ name = "Long Straddle"
    /\ stock_legs = <<>>
    /\ Len(option_legs) = 2
    /\ result.op = "analyze"
    /\ C5_Total > 0
    /\ GridPrice(1) <= C5_Low
    /\ C5_High <= GridPrice(GridSize)

\* the break-even be (a fraction) is within one grid step of the price x
C5_Near(be, x) ==
    Abs(be.num - x * be.den) <= (GridPrice(2) - GridPrice(1)) * be.den

C5_TwoBreakEvens ==
    /\ Len(result.ret.break_even_at_expiration) = 2
    /\ C5_Near(result.ret.break_even_at_expiration[1], C5_Low)
    /\ C5_Near(result.ret.break_even_at_expiration[2], C5_High)

\* C5 as claimed: a long straddle (strike K, premiums c + p > 0) analysed on
\* a grid containing K - (c+p) and K + (c+p) gets exactly two break-evens,
\* one within a grid step of each.
C5_Claimed == C5_LongStraddle => C5_TwoBreakEvens

C5_CrossesBetweenGridPrices ==
    /\ \A i \in 1..GridSize : PayoffAt(GridPrice(i)) # 0
    /\ \E i \in 1..GridSize : PayoffAt(GridPrice(i)) < 0

\* C5 amended: a long straddle (strike K, premiums c + p > 0) analysed on a
\* grid containing K - (c+p) and K + (c+p), whose payoff is non-zero at every
\* grid price and negative at one of them at least, gets exactly two
\* break-evens, one within a grid step of each.
C5_TwoBreakEvensOffGrid ==
    (C5_LongStraddle /\ C5_CrossesBetweenGridPrices) => C5_TwoBreakEvens

\* an analysed straddle whose payoff crosses zero between grid prices,
\* on both sides of the strike
C5_Witness ==
    /\ C5_LongStraddle
    /\ C5_CrossesBetweenGridPrices
    /\ Len(result.ret.break_even_at_expiration) = 2

T_or_sigma_degenerate == bs_args.days <= 0 \/ bs_args.sigma <= 0

\* C6: for S > 0, K > 0 and any r, q, when T <= 0 or sigma <= 0 call_price
\* returns exactly max(S - K, 0) and put_price exactly max(K - S, 0): never
\* negative, whatever r and q and whichever of T and sigma is degenerate.
C6_DegeneratePriceIsIntrinsic ==
    T_or_sigma_degenerate =>
        /\ bs_ret.op = "call_price" =>
              bs_ret.ret = Exact(Max(bs_args.S - bs_args.K, 0))
        /\ bs_ret.op = "put_price" =>
              bs_ret.ret = Exact(Max(bs_args.K - bs_args.S, 0))
        /\ bs_ret.op \in {"call_price", "put_price"} => bs_ret.ret.k >= 0

\* a call in the money priced at zero volatility before expiration, with a
\* non-zero rate and dividend yield
C6_Witness ==
    /\ bs_ret.op = "call_price"
    /\ bs_args.days > 0
    /\ bs_args.sigma = 0
    /\ bs_args.S > bs_args.K
    /\ bs_args.r # 0
    /\ bs_args.q # 0
    /\ bs_ret.ret = Exact(bs_args.S - bs_args.K)

\* C8: at T <= 0, whatever sigma, r and q, delta is 1.0 for a call with
\* S > K and 0.0 in every other case (every put, every call with S <= K);
\* gamma, theta, vega and rho are 0.
C8_GreeksAtExpiration ==
    bs_args.days <= 0 =>
        /\ bs_ret.op = "delta" =>
              bs_ret.ret = (IF bs_args.option_type = "call" /\ bs_args.S > bs_args.K
                            THEN Exact(1) ELSE Exact(0))
        /\ bs_ret.op \in {"gamma", "theta", "vega", "rho"} => bs_ret.ret = Exact(0)

\* the delta of a put in the money at expiration, at zero volatility
C8_Witness ==
    /\ bs_ret.op = "delta"
    /\ bs_args.days <= 0
    /\ bs_args.sigma = 0
    /\ bs_args.option_type = "put"
    /\ bs_args.S < bs_args.K
    /\ bs_ret.ret = Exact(0)

\* C9: with T = 0 or sigma = 0 (S > 0, K > 0) every operation of the pricing
\* engine returns a finite number: no NaN, also for sigma = 0 with T > 0.
C9_DegenerateIsFinite ==
    (bs_ret.op # "none" /\ (bs_args.days = 0 \/ bs_args.sigma = 0)) =>
        ~bs_ret.ret.nan

HoldsUnknownTag ==
    \/ \E i \in 1..Len(option_legs) : ~ValidOptionLeg(option_legs[i])
    \/ \E i \in 1..Len(stock_legs) : ~ValidStockLeg(stock_legs[i])

\* a leg as the else-branches read it: any kind but call as a put, any
\* position but long as short
ReadAsValid(leg) ==
    IF "option_type" \in DOMAIN leg
    THEN [leg EXCEPT !.option_type = kind_branch(@),
                     !.position = IF @ = "long" THEN "long" ELSE "short"]
    ELSE [leg EXCEPT !.position = IF @ = "long" THEN "long" ELSE "short"]

ReadAsValidLegs(legs) == [i \in 1..Len(legs) |-> ReadAsValid(legs[i])]

\* what the held query returns for the strategy with legs sl and ol
QueryReturn(sl, ol) ==
    CASE result.op = "payoff_at_expiration" -> payoff_at_expiration(sl, ol, result.arg)
      [] result.op = "current_pnl" -> current_pnl(sl, ol, market_params, result.arg)
      [] result.op = "current_pnl_array" ->
            current_pnl_array(sl, ol, market_params, result.arg)
      [] result.op = "greeks" -> greeks(sl, ol, market_params, result.arg)
      [] result.op = "analyze" -> analyze(sl, ol, market_params, result.arg)

C10_TreatedAsValid ==
    /\ ~result.raised
    /\ result.ret = QueryReturn(ReadAsValidLegs(stock_legs), ReadAsValidLegs(option_legs))

\* C10: an option kind other than call/put or a position tag other than
\* long/short is never silently treated as a valid kind or position in a
\* query's value, and is signalled as an error at leg addition or at the
\* first query that meets the leg.
C10_UnknownTagIsSignalled ==
    (result.op \in QueryOps /\ HoldsUnknownTag) =>
        /\ ~C10_TreatedAsValid
        /\ result.raised

\* a strike <= 0, a stock price <= 0 or a negative volatility among the
\* parameters a request carries
InvalidParameters(request) ==
    \/ \E i \in 1..Len(request.option_legs) :
          /\ "strike" \in DOMAIN request.option_legs[i]
          /\ request.option_legs[i].strike <= 0
    \/ \E i \in 1..Len(request.stock_legs) :
          /\ "price" \in DOMAIN request.stock_legs[i]
          /\ request.stock_legs[i].price <= 0
    \/ /\ "volatility" \in DOMAIN request.market_params
       /\ request.market_params.volatility < 0

\* the same among the legs and parameters a strategy holds
HoldsInvalidParameter(strategy) ==
    \/ \E i \in 1..Len(strategy.option_legs) : strategy.option_legs[i].strike <= 0
    \/ \E i \in 1..Len(strategy.stock_legs) : strategy.stock_legs[i].price <= 0
    \/ strategy.market_params.volatility < 0

HasNaN(analysis) ==
    \/ analysis.current_pnl.nan
    \/ \E g \in DOMAIN analysis.greeks : analysis.greeks[g].nan

C11_NeverHeld ==
    \A h \in Handlers :
        handlers[h].strategy # None => ~HoldsInvalidParameter(handlers[h].strategy)

C11_NeverNaN ==
    \A h \in Handlers :
        (handlers[h].analysis # None /\ InvalidParameters(handlers[h].request)) =>
            ~HasNaN(handlers[h].analysis)

C11_Signalled ==
    \A h \in Handlers :
        (handlers[h].pc = "done" /\ InvalidParameters(handlers[h].request)) =>
            handlers[h].response.status_code # 200

\* C11: add_option_leg with strike <= 0, add_stock_leg with price <= 0 and
\* construction with negative volatility are rejected where they enter: the
\* strategy of a request never holds such a value, the request is answered by
\* a rejection, and no analysis of it holds a NaN.
C11_InvalidIsRejected ==
    /\ C11_NeverHeld
    /\ C11_Signalled
    /\ C11_NeverNaN

IsPrefix(s, t) == Len(s) <= Len(t) /\ SubSeq(t, 1, Len(s)) = s

\* C12: the leg lists are append-only.  A step by add_option_leg appends
\* exactly its leg to the end of option_legs and leaves stock_legs, name and
\* market_params unchanged; a step by add_stock_leg appends exactly its leg
\* to the end of stock_legs and leaves option_legs, name and market_params
\* unchanged; across every step on the same strategy (every step but a
\* factory's, which returns a new strategy) each list before the step is a
\* prefix of the list after it.
C12_AppendOnly ==
    [][/\ result'.op = "add_option_leg" =>
             /\ option_legs' = Append(option_legs, result'.arg)
             /\ UNCHANGED <<stock_legs, name, market_params>>
       /\ result'.op = "add_stock_leg" =>
             /\ stock_legs' = Append(stock_legs, result'.arg)
             /\ UNCHANGED <<option_legs, name, market_params>>
       /\ result'.op # "none" =>
             /\ IsPrefix(option_legs, option_legs')
             /\ IsPrefix(stock_legs, stock_legs')]_vars

\* a second, different option leg has just been added behind the first
C12_Witness ==
    /\ result.op = "add_option_leg"
    /\ Len(option_legs) = 2
    /\ option_legs[2] = result.arg
    /\ option_legs[1] # option_legs[2]

\* the held return is the value of the query on the fields as they are now
C13_ReturnIsFunctionOfState ==
    result.op \in QueryOps =>
        /\ ~result.raised
        /\ result.ret = QueryReturn(stock_legs, option_legs)
        /\ result.op = "payoff_at_expiration" => result.arg \in PriceVectors
        /\ result.op = "current_pnl_array" => result.arg \in PnlVectors

\* C13: a step by payoff_at_expiration, current_pnl, current_pnl_array,
\* greeks or analyze leaves option_legs, stock_legs, name and market_params
\* unchanged and its price vector as it was given; and the return of a query is the value of that
\* query on the strategy's fields and its argument alone, so the same query
\* with the same argument returns the same result whatever queries were made
\* before it (no cached derived state).
C13_QueriesArePure ==
    /\ []C13_ReturnIsFunctionOfState
    /\ [][result'.op \in QueryOps =>
             UNCHANGED <<option_legs, stock_legs, name, market_params>>]_vars

\* a query answered on a strategy with legs, after a mutator
C13_Witness ==
    /\ result.op = "payoff_at_expiration"
    /\ Len(option_legs) >= 1
    /\ Len(stock_legs) >= 1
    /\ \E i \in 1..Len(result.ret) : result.ret[i] # 0

AllSame(legs) == \A i \in 1..Len(legs) : legs[i] = legs[1]

\* the strategy holds one leg n times, n >= 2, and nothing else
C14_Repeated ==
    \/ stock_legs = <<>> /\ Len(option_legs) >= 2 /\ AllSame(option_legs)
    \/ option_legs = <<>> /\ Len(stock_legs) >= 2 /\ AllSame(stock_legs)

\* the list holding its first leg once
C14_Once(legs) == IF legs = <<>> THEN <<>> ELSE <<legs[1]>>

\* n times the return v of the held query
C14_Times(n, v) ==
    CASE result.op = "payoff_at_expiration" -> [i \in 1..Len(v) |-> n * v[i]]
      [] result.op = "current_pnl" -> VScale(n, v)
      [] result.op = "current_pnl_array" -> [i \in 1..Len(v) |-> VScale(n, v[i])]
      [] result.op = "greeks" -> [g \in DOMAIN v |-> VScale(n, v[g])]

\* C14: legs are never deduplicated.  For a strategy holding one leg n times,
\* payoff_at_expiration, current_pnl (one price or an array) and every Greek
\* are n times those of the strategy holding that leg once.
C14_RepeatedLegCountsEachTime ==
    (C14_Repeated /\ result.op \in QueryOps \ {"analyze"}) =>
        result.ret = C14_Times(Len(option_legs) + Len(stock_legs),
                               QueryReturn(C14_Once(stock_legs), C14_Once(option_legs)))

\* the payoff of an option leg held twice, at a price where it pays
C14_Witness ==
    /\ C14_Repeated
    /\ Len(option_legs) >= 2
    /\ result.op = "payoff_at_expiration"
    /\ \E i \in 1..Len(result.ret) : result.ret[i] # 0

\* what instance i of insts shows: its fields, its market parameters as read
\* through its reference into the heap hp, and its queries at one spot
InstanceView(insts, hp, i) ==
    [name |-> insts[i].name,
     option_legs |-> insts[i].option_legs,
     stock_legs |-> insts[i].stock_legs,
     market_params |-> hp[insts[i].market_params],
     current_pnl |-> current_pnl(insts[i].stock_legs, insts[i].option_legs,
                                 hp[insts[i].market_params], 2001),
     greeks |-> greeks(insts[i].stock_legs, insts[i].option_legs,
                       hp[insts[i].market_params], 2001)]

C15_LegListsNotShared ==
    [][\A i \in 1..Len(instances) :
          i # call'.self =>
              /\ instances'[i].option_legs = instances[i].option_legs
              /\ instances'[i].stock_legs = instances[i].stock_legs]_vars

\* C15: no state is aliased between strategies.  However two instances were
\* constructed, a step that acts on one of them (adds a leg to it, assigns a
\* market parameter through it) leaves every other instance's option_legs,
\* stock_legs, market_params and query results as they were.
C15_NoAliasing ==
    [][\A i \in 1..Len(instances) :
          i # call'.self =>
              InstanceView(instances', heap', i) = InstanceView(instances, heap, i)]_vars

\* invocation h has returned an AnalysisResponse
Answered(h) ==
    /\ handlers[h].pc = "done"
    /\ handlers[h].response.status_code = 200

\* the fraction f is p / l, for l > 0 (stated by division: the products
\* overflow TLC's 32-bit integers)
IsQuotient(f, p, l) ==
    /\ f.num > 0
    /\ f.den > 0
    /\ p % f.num = 0
    /\ l % f.den = 0
    /\ p \div f.num = l \div f.den

\* C16: in a response of the analysis endpoint the risk/reward ratio is
\* max_profit / |max_loss| exactly when max_loss < 0 and max_profit > 0, and
\* is None in every other case (max_loss = 0 and max_profit = 0 included);
\* when present it is strictly positive, and its divisor is not 0.
C16_RiskRewardRatio ==
    \A h \in Handlers :
        Answered(h) =>
            IF handlers[h].response.max_loss < 0 /\ handlers[h].response.max_profit > 0
            THEN /\ handlers[h].response.risk_reward_ratio # None
                 /\ Abs(handlers[h].response.max_loss) # 0
                 /\ IsQuotient(handlers[h].response.risk_reward_ratio,
                                   handlers[h].response.max_profit,
                                   Abs(handlers[h].response.max_loss))
            ELSE handlers[h].response.risk_reward_ratio = None

\* three answers: one with a ratio, one without for max_loss = 0 and one
\* without for max_profit = 0
C16_Witness ==
    /\ \E h \in Handlers :
          /\ Answered(h)
          /\ handlers[h].response.risk_reward_ratio # None
          /\ handlers[h].response.risk_reward_ratio.num
                > handlers[h].response.risk_reward_ratio.den
    /\ \E h \in Handlers :
          /\ Answered(h)
          /\ \/ /\ handlers[h].response.max_loss = 0
                /\ handlers[h].response.max_profit > 0
             \/ /\ handlers[h].response.max_profit = 0
                /\ handlers[h].response.max_loss < 0
          /\ handlers[h].response.risk_reward_ratio = None

\* every invocation that has ended answered what the handler answers when it
\* runs alone on that request
C17_ResponseAsAlone ==
    \A h \in Handlers :
        handlers[h].pc = "done" =>
            handlers[h].response = analyze_strategy(handlers[h].request)

\* C17: analysis requests are independent under any interleaving.  Each
\* invocation works on its own MarketParams, OptionsStrategy and price grid:
\* a step changes the locals of one invocation and of no other, and the
\* response of an invocation is the response to its request run alone,
\* whatever the other invocation did in between.
C17_RequestsAreIndependent ==
    /\ []C17_ResponseAsAlone
    /\ [][\A h \in Handlers :
             handlers'[h] # handlers[h] =>
                 \A g \in Handlers \ {h} : handlers'[g] = handlers[g]]_vars

\* one invocation has answered while the other, on a different request, is
\* in the middle of its own strategy
C17_Witness ==
    \E h, g \in Handlers :
        /\ Answered(h)
        /\ handlers[h].response.risk_reward_ratio # None
        /\ handlers[g].pc = "analyze"
        /\ handlers[g].request # handlers[h].request
        /\ Len(handlers[g].strategy.stock_legs) >= 1

\* the grid is n prices from S/2 to 3S/2 at equal distances
C18_IsGrid(grid, S, n) ==
    /\ Len(grid) = n
    /\ 2 * grid[1] = S
    /\ 2 * grid[n] = 3 * S
    /\ \A i \in 1..(n - 2) : grid[i + 1] - grid[i] = grid[i + 2] - grid[i + 1]
    /\ grid[2] > grid[1]

\* C18: analyze(spot) evaluates the expiration payoff on a grid of exactly
\* 500 equally spaced prices from 0.5*spot to 1.5*spot; max_loss <=
\* payoff(g) <= max_profit for every grid price g, max_loss <= max_profit,
\* and each of the two is the payoff at some grid price.
C18_ExtremaOverGrid ==
    result.op = "analyze" =>
        LET grid    == linspace_half(result.arg, GridSize) \o <<>>
            payoffs == payoff_at_expiration(stock_legs, option_legs, grid) \o <<>>
            hi      == result.ret.max_profit_at_expiration
            lo      == result.ret.max_loss_at_expiration
        IN  /\ C18_IsGrid(grid, result.arg, 500)
            /\ \A i \in 1..500 : lo <= payoffs[i] /\ payoffs[i] <= hi
            /\ lo <= hi
            /\ \E i \in 1..500 : payoffs[i] = hi
            /\ \E i \in 1..500 : payoffs[i] = lo

\* an analysis whose largest payoff is inside the grid and whose smallest is
\* at its far end, not at its first price
C18_Witness ==
    /\ result.op = "analyze"
    /\ result.ret.max_loss_at_expiration < 0
    /\ result.ret.max_profit_at_expiration > 0
    /\ PayoffAt(GridPrice(1)) # result.ret.max_profit_at_expiration
    /\ PayoffAt(GridPrice(GridSize)) = result.ret.max_loss_at_expiration
    /\ PayoffAt(GridPrice(1)) # result.ret.max_loss_at_expiration

\* a < b for fractions with positive denominators (by whole part and
\* remainder: the cross products overflow TLC's 32-bit integers)
FracLess(a, b) ==
    \/ a.num \div a.den < b.num \div b.den
    \/ /\ a.num \div a.den = b.num \div b.den
       /\ (a.num % a.den) * b.den < (b.num % b.den) * a.den

\* C19: analyze emits one break-even for each pair of consecutive grid
\* points whose payoffs have strictly opposite signs and none for any other
\* pair, in the order of the pairs; the value for the pair (S_i, S_i+1) is
\* S_i - payoff_i*(S_i+1 - S_i)/(payoff_i+1 - payoff_i) and lies strictly
\* between S_i and S_i+1; the list is strictly increasing and as long as the
\* number of strict sign changes.
C19_BreakEvenPerSignChange ==
    result.op = "analyze" =>
        LET S  == linspace_half(result.arg, GridSize) \o <<>>
            p  == payoff_at_expiration(stock_legs, option_legs, S) \o <<>>
            be == result.ret.break_even_at_expiration
            opposite(i) == \/ p[i] < 0 /\ p[i + 1] > 0
                           \/ p[i] > 0 /\ p[i + 1] < 0
            pairs == SelectSeq([i \in 1..499 |-> i], opposite)
            dp(i) == p[i + 1] - p[i]
        IN  /\ Len(be) = Len(pairs)
            /\ Len(be) = Cardinality({i \in 1..499 : opposite(i)})
            /\ \A j \in 1..Len(be) :
                  /\ IsQuotient(be[j],
                                Sgn(dp(pairs[j]))
                                  * (S[pairs[j]] * dp(pairs[j])
                                     - p[pairs[j]] * (S[pairs[j] + 1] - S[pairs[j]])),
                                Abs(dp(pairs[j])))
                  /\ S[pairs[j]] * be[j].den < be[j].num
                  /\ be[j].num < S[pairs[j] + 1] * be[j].den
            /\ \A j \in 1..(Len(be) - 1) : FracLess(be[j], be[j + 1])

\* an analysis with two break-evens, the payoff negative between them
C19_Witness ==
    /\ result.op = "analyze"
    /\ Len(result.ret.break_even_at_expiration) >= 2
    /\ FracLess(result.ret.break_even_at_expiration[1],
                result.ret.break_even_at_expiration[2])
    /\ result.ret.max_loss_at_expiration < 0

C20_Sign(leg) == CASE leg.position = "long" -> 1 [] leg.position = "short" -> -1

\* the sum of the signed quantities of the first n stock legs
RECURSIVE C20_SignedQuantity(_, _)
C20_SignedQuantity(legs, n) ==
    IF n = 0 THEN 0
    ELSE C20_SignedQuantity(legs, n - 1) + C20_Sign(legs[n]) * legs[n].quantity

\* the five Greeks of one option leg from the pricing engine
C20_LegGreeks(leg, mp, S) ==
    [delta |-> delta(S, leg.strike, mp.days_to_expiration, mp.risk_free_rate,
                     mp.volatility, leg.option_type, mp.dividend_yield),
     gamma |-> gamma(S, leg.strike, mp.days_to_expiration, mp.risk_free_rate,
                     mp.volatility, mp.dividend_yield),
     theta |-> theta(S, leg.strike, mp.days_to_expiration, mp.risk_free_rate,
                     mp.volatility, leg.option_type, mp.dividend_yield),
     vega  |-> vega(S, leg.strike, mp.days_to_expiration, mp.risk_free_rate,
                    mp.volatility, mp.dividend_yield),
     rho   |-> rho(S, leg.strike, mp.days_to_expiration, mp.risk_free_rate,
                   mp.volatility, leg.option_type, mp.dividend_yield)]

\* Greek g of the first n option legs, each with sign +1 or -1 and factor 100
RECURSIVE C20_OptionSum(_, _, _, _, _)
C20_OptionSum(legs, n, mp, S, g) ==
    IF n = 0 THEN Exact(0)
    ELSE VAdd(C20_OptionSum(legs, n - 1, mp, S, g),
              VScale(C20_Sign(legs[n]) * 100, C20_LegGreeks(legs[n], mp, S)[g]))

\* C20: in greeks(spot) each stock leg contributes +quantity to delta if long
\* and -quantity if short and nothing to gamma, theta, vega or rho, and each
\* option leg's Greek is added with sign +1 if long, -1 if short, and factor
\* 100; so with stock legs only, delta is the sum of the signed quantities
\* and the other four Greeks are 0, at every spot and market parameter.
C20_StockLegGreeks ==
    (result.op = "greeks" /\ ValidLegs) =>
        /\ result.ret.delta =
              VAdd(Exact(C20_SignedQuantity(stock_legs, Len(stock_legs))),
                   C20_OptionSum(option_legs, Len(option_legs), market_params,
                                 result.arg, "delta"))
        /\ \A g \in {"gamma", "theta", "vega", "rho"} :
              result.ret[g] = C20_OptionSum(option_legs, Len(option_legs),
                                            market_params, result.arg, g)
        /\ option_legs = <<>> =>
              /\ result.ret.delta =
                    Exact(C20_SignedQuantity(stock_legs, Len(stock_legs)))
              /\ \A g \in {"gamma", "theta", "vega", "rho"} : result.ret[g] = Exact(0)

\* the Greeks of a long and a short stock leg of different quantities
C20_Witness ==
    /\ result.op = "greeks"
    /\ ValidLegs
    /\ option_legs = <<>>
    /\ \E i, j \in 1..Len(stock_legs) :
          /\ stock_legs[i].position = "long"
          /\ stock_legs[j].position = "short"
          /\ stock_legs[i].quantity # stock_legs[j].quantity
    /\ result.ret.delta # Exact(0)

(***************************************************************************)
(* C21: the order of the legs.                                             *)
(***************************************************************************)
\* the lists holding the legs of s in every order
Reorderings(s) ==
    {[i \in 1..Len(s) |-> s[p[i]]] \o <<>> : p \in Permutations(1..Len(s))}

\* C21: valuation does not depend on the order in which the legs were
\* added: for the strategy held and every strategy of the same market
\* parameters whose stock_legs and option_legs are the held lists in another
\* order, payoff_at_expiration, current_pnl, current_pnl_array, greeks and
\* analyze (max profit, max loss, break-evens) return the same for the same
\* input.
C21_OrderIrrelevant ==
    result.op \in QueryOps =>
        \A sl \in Reorderings(stock_legs), ol \in Reorderings(option_legs) :
            <<sl, ol>> # <<stock_legs, option_legs>> =>
                QueryReturn(sl, ol) = result.ret

\* an analysis with break-evens of a strategy whose option legs are four
\* different legs (24 orders)
C21_Witness ==
    /\ result.op = "analyze"
    /\ Len(option_legs) = 4
    /\ Cardinality(Reorderings(option_legs)) = 24
    /\ result.ret.break_even_at_expiration # <<>>
    /\ result.ret.max_loss_at_expiration < 0

(***************************************************************************)
(* C22: current_pnl at expiration and at volatility <= 0.                  *)
(***************************************************************************)
C22_Degenerate(mp) == mp.days_to_expiration = 0 \/ mp.volatility <= 0

\* the market parameters held and the same with a negative volatility
C22_Params == {market_params, [market_params EXCEPT !.volatility = -10]}

\* the single value payoff_at_expiration returns for the price S
C22_PayoffAt(S) == payoff_at_expiration(stock_legs, option_legs, <<S>>)[1]

\* C22: when days_to_expiration is 0 or volatility is <= 0, current_pnl(S)
\* equals the value payoff_at_expiration returns for the price S, for every
\* strategy and every S > 0.
C22_PnlCollapsesOntoPayoff ==
    result.op = "current_pnl" =>
        /\ C22_Degenerate(market_params) => result.ret = Exact(C22_PayoffAt(result.arg))
        /\ \A mp \in C22_Params :
              C22_Degenerate(mp) =>
                  current_pnl(stock_legs, option_legs, mp, result.arg)
                      = Exact(C22_PayoffAt(result.arg))

\* the P&L at expiration of a stock leg with a long option in the money and
\* a short option out of the money at the spot asked for
C22_Witness ==
    /\ result.op = "current_pnl"
    /\ market_params.days_to_expiration = 0
    /\ stock_legs # <<>>
    /\ \E i \in 1..Len(option_legs) :
          /\ option_legs[i].position = "long"
          /\ intrinsic(option_legs[i], result.arg) > 0
    /\ result.ret # Exact(0)

(***************************************************************************)
(* C23: a zero of the payoff on a grid point.                              *)
(***************************************************************************)
\* C23: if the payoff is exactly 0 at grid point i, neither the pair
\* (i-1, i) nor the pair (i, i+1) emits a break-even: none is reported at
\* S_i or between S_i-1 and S_i+1; analyze returns no two equal break-evens
\* and every interpolation has a non-zero denominator; and a strategy with no
\* pair of consecutive grid payoffs of strictly opposite signs (its payoff
\* crosses zero at grid points only, or is 0 on a run of them) gets the
\* empty list.
C23_ZeroOnGridNotReported ==
    result.op = "analyze" =>
        LET S  == linspace_half(result.arg, GridSize) \o <<>>
            p  == payoff_at_expiration(stock_legs, option_legs, S) \o <<>>
            be == result.ret.break_even_at_expiration
            opposite(i) == \/ p[i] < 0 /\ p[i + 1] > 0
                           \/ p[i] > 0 /\ p[i + 1] < 0
            above(b, i) == IF i > 1 THEN S[i - 1] * b.den < b.num
                           ELSE S[i] * b.den <= b.num
            below(b, i) == IF i < GridSize THEN b.num < S[i + 1] * b.den
                           ELSE b.num <= S[i] * b.den
        IN  /\ \A i \in 1..GridSize :
                  p[i] = 0 =>
                      \A j \in 1..Len(be) : ~(above(be[j], i) /\ below(be[j], i))
            /\ \A j, k \in 1..Len(be) : j # k => be[j] # be[k]
            /\ \A j \in 1..Len(be) : be[j].den > 0
            /\ (\A i \in 1..(GridSize - 1) : ~opposite(i)) => be = <<>>

\* an analysis whose payoff goes from a loss to a profit through a zero on a
\* grid price, with no break-even reported
C23_Witness ==
    /\ result.op = "analyze"
    /\ \E i \in 2..(GridSize - 1) :
          /\ PayoffAt(GridPrice(i)) = 0
          /\ PayoffAt(GridPrice(i - 1)) < 0
          /\ PayoffAt(GridPrice(i + 1)) > 0
    /\ result.ret.break_even_at_expiration = <<>>
    /\ result.ret.max_loss_at_expiration < 0
    /\ result.ret.max_profit_at_expiration > 0

====
